---- MODULE Spec2Model ----
(***************************************************************************)
(* Model of the combination solver of sangokushi-optimizer (Solver,       *)
(* TraitsManager) as a state machine: a caller holds the five arguments   *)
(* of Solver.search, the process-wide trait table TraitsManager.traits    *)
(* can be reloaded, and Solver.search is applied to the arguments.        *)
(*                                                                         *)
(* The seven physical slot keys of the source are CJK strings; they are    *)
(* written here in pinyin: ZhuDian, ChengQiang, GuangChang, XiFang,        *)
(* XiShi, DongFang, DongShi (source order).                                *)
(***************************************************************************)
EXTENDS Integers, Sequences, FiniteSets, TLC

VARIABLES
    buildingsBySlot,   \* argument 1: physical slot key -> candidate list
    enabledSlots,      \* argument 2: Object.entries order, <<[slot, enabled]>>
    targets,           \* argument 3: stat -> number (a stat may be missing)
    traitEffects,      \* argument 4: [given, table]; given = FALSE is undefined
    maxResults,        \* argument 5: [given, value]; given = FALSE is undefined
    traits,            \* TraitsManager.traits, the process-wide trait table
    called,            \* whether Solver.search has been called yet
    results,           \* value returned by the latest Solver.search call
    traitsAtCall,      \* TraitsManager.traits as last read by a call
    firstResults,      \* value returned by the first Solver.search call
    estimate,          \* <<n>>: value returned by Solver.estimateCombinations
    value,             \* argument of Solver.countThresholds
    count,             \* <<n>>: value returned by Solver.countThresholds
    selectedBuildings, \* argument of TraitsManager.calculateTraitBonus
    bonus,             \* <<b>>: value returned by calculateTraitBonus
    triggers,          \* number of App.search calls so far
    timers,            \* pending setTimeout callbacks of App.search, oldest first
    rendered,          \* the App.renderResults calls made by the callbacks
    display,           \* what the results container shows
    userBuildings,     \* App.state.userBuildings
    grouped,           \* App.processUserBuildingsBySlot has run
    thresholdClass,    \* <<c>>: value returned by Solver.getThresholdClass
    extraEffects,      \* <<l>>: value returned by TraitsManager.getExtraEffects
    triggered,         \* the state App.search found at each of its calls
    store,             \* localStorage: the three items, <<>> when absent
    lastCall,          \* the latest Storage or dialog operation and its outcome
    exported,          \* <<d>>: value returned by the latest Storage.exportAllData
    dialogs,           \* the dialogs opened so far and their promises
    modalActive,       \* which modal elements have the class active
    activeModalCleanup \* App._activeModalCleanup: 0 (null) or a dialog's index

solverVars == <<buildingsBySlot, enabledSlots, targets, traitEffects,
                maxResults, traits, called, results, traitsAtCall,
                firstResults>>

helperVars == <<estimate, value, count, selectedBuildings, bonus>>

appVars == <<triggers, timers, rendered, display, triggered>>

restVars == <<userBuildings, grouped, thresholdClass, extraEffects>>

storageVars == <<store, lastCall, exported>>

modalVars == <<dialogs, modalActive, activeModalCleanup>>

vars == <<solverVars, helperVars, appVars, restVars, storageVars, modalVars>>

-----------------------------------------------------------------------------
(* Bounds of the model *)

MaxCand == 3        \* longest candidate list of a slot
MaxEntries == 2     \* most entries of the enabledSlots object
MaxN == 1           \* largest maxResults passed
MaxSize == 4        \* most items (candidates, entries, options) in the arguments
MaxListLen == 4     \* longest candidate list passed to estimateCombinations
MaxTotalLen == 9    \* most candidates over the lists passed to estimateCombinations
MaxValue == 120     \* largest stat value passed to countThresholds
MaxSelected == 3    \* most buildings passed to calculateTraitBonus
MaxTriggers == 2    \* most App.search calls in a behaviour
MaxUser == 3        \* most user buildings passed to processUserBuildingsBySlot
MaxStored == 2      \* most user buildings Storage.addUserBuilding is called on
MaxTime == 2        \* latest reading of the clock
MaxDialogs == 3     \* most dialogs opened in a behaviour

-----------------------------------------------------------------------------
(* Helpers for JavaScript values *)

StatNames == <<"agriculture", "mining", "military", "commerce">>

Stats == {StatNames[i] : i \in 1..Len(StatNames)}

\* obj[field] || 0 for a numeric field that may be missing
OrZero(obj, field) == IF field \in DOMAIN obj THEN obj[field] ELSE 0

\* a string field of an object, a missing field being falsy like ""
OrEmpty(obj, field) == IF field \in DOMAIN obj THEN obj[field] ELSE ""

Min(a, b) == IF a <= b THEN a ELSE b

Max(a, b) == IF a >= b THEN a ELSE b

\* slice(0, maxResults - 1): the cap applied one short
Slice_OneShort(arr, end) ==
    LET len == Len(arr)
        k == IF end - 1 < 0 THEN Max(len + end - 1, 0) ELSE Min(end - 1, len)
    IN  SubSeq(arr, 1, k)

\* Array.prototype.slice(0, end)
Slice(arr, end) ==
    LET len == Len(arr)
        k == IF end < 0 THEN Max(len + end, 0) ELSE Min(end, len)
    IN  SubSeq(arr, 1, k)

-----------------------------------------------------------------------------
(* TraitsManager *)

\* the loop left at the first building without a known trait
RECURSIVE BonusSum_StopsAtUnknown(_, _, _)
BonusSum_StopsAtUnknown(buildings, effects, stat) ==
    IF buildings = <<>> THEN 0
    ELSE LET building == Head(buildings)
         IN  IF /\ "trait" \in DOMAIN building
                /\ building.trait # ""
                /\ building.trait \in DOMAIN effects
             THEN OrZero(effects[building.trait], stat)
                  + BonusSum_StopsAtUnknown(Tail(buildings), effects, stat)
             ELSE 0

RECURSIVE BonusSum(_, _, _)
BonusSum(buildings, effects, stat) ==
    IF buildings = <<>> THEN 0
    ELSE LET building == Head(buildings)
             rest == BonusSum(Tail(buildings), effects, stat)
         IN  IF /\ "trait" \in DOMAIN building
                /\ building.trait # ""
                /\ building.trait \in DOMAIN effects
             THEN OrZero(effects[building.trait], stat) + rest
             ELSE rest

\* the buildings of a list without those whose trait occurred earlier
RECURSIVE FirstOfEachTrait(_, _)
FirstOfEachTrait(buildings, seen) ==
    IF buildings = <<>> THEN <<>>
    ELSE LET building == Head(buildings)
         IN  IF "trait" \in DOMAIN building /\ building.trait \in seen
             THEN FirstOfEachTrait(Tail(buildings), seen)
             ELSE <<building>> \o
                  FirstOfEachTrait(Tail(buildings),
                                   IF "trait" \in DOMAIN building
                                   THEN seen \cup {building.trait} ELSE seen)

\* each trait counted once however many buildings carry it
calculateTraitBonus_OncePerTrait(buildings, te, tm) ==
    LET effects == IF te.given THEN te.table ELSE tm
    IN  [s \in Stats |->
            BonusSum(FirstOfEachTrait(buildings, {}), effects, s)]

\* tm is the value of this.traits (TraitsManager.traits) read by the call
calculateTraitBonus(buildings, te, tm) ==
    LET effects == IF te.given THEN te.table ELSE tm
    IN  [s \in Stats |-> BonusSum(buildings, effects, s)]

\* a trait listed once however many buildings carry it
RECURSIVE getExtraEffects_OncePerTrait(_, _)
getExtraEffects_OncePerTrait(buildings, tm) ==
    IF buildings = <<>> THEN <<>>
    ELSE LET n == Len(buildings)
             building == buildings[n]
             before == SubSeq(buildings, 1, n - 1)
             sofar == getExtraEffects_OncePerTrait(before, tm)
         IN  IF /\ "trait" \in DOMAIN building
                /\ building.trait # ""
                /\ building.trait \in DOMAIN tm
                /\ OrEmpty(tm[building.trait], "extraEffect") # ""
                /\ \A i \in 1..Len(sofar) : sofar[i].trait # building.trait
             THEN Append(sofar,
                         [trait |-> building.trait,
                          effect |-> tm[building.trait].extraEffect])
             ELSE sofar

\* the forEach of getExtraEffects over the buildings, tm being this.traits
RECURSIVE getExtraEffects(_, _)
getExtraEffects(buildings, tm) ==
    IF buildings = <<>> THEN <<>>
    ELSE LET n == Len(buildings)
             building == buildings[n]
             sofar == getExtraEffects(SubSeq(buildings, 1, n - 1), tm)
         IN  IF /\ "trait" \in DOMAIN building
                /\ building.trait # ""
                /\ building.trait \in DOMAIN tm
                /\ OrEmpty(tm[building.trait], "extraEffect") # ""
             THEN Append(sofar,
                         [trait |-> building.trait,
                          effect |-> tm[building.trait].extraEffect])
             ELSE sofar

-----------------------------------------------------------------------------
(* Solver *)

THRESHOLDS == <<15, 50, 75, 100>>

\* > in place of >=
countThresholds_Strict(v) ==
    Cardinality({i \in 1..Len(THRESHOLDS) : v > THRESHOLDS[i]})

countThresholds(v) ==
    Cardinality({i \in 1..Len(THRESHOLDS) : v >= THRESHOLDS[i]})

\* the commerce count left out of the sum
calculateThresholdScore_DropsCommerce(totals) ==
    countThresholds(totals.agriculture) + countThresholds(totals.mining) +
    countThresholds(totals.military)

calculateThresholdScore(totals) ==
    countThresholds(totals.agriculture) + countThresholds(totals.mining) +
    countThresholds(totals.military) + countThresholds(totals.commerce)

RECURSIVE BaseSum(_, _)
BaseSum(buildings, stat) ==
    IF buildings = <<>> THEN 0
    ELSE OrZero(Head(buildings), stat) + BaseSum(Tail(buildings), stat)

\* the trait bonus not added
calculateTotals_NoBonus(buildings, te, tm) ==
    [s \in Stats |-> BaseSum(buildings, s)]

calculateTotals(buildings, te, tm) ==
    LET traitBonus == calculateTraitBonus(buildings, te, tm)
    IN  [s \in Stats |-> BaseSum(buildings, s) + traitBonus[s]]

\* > in place of >=
meetTargets_Strict(totals, tg) ==
    /\ totals.agriculture > OrZero(tg, "agriculture")
    /\ totals.mining > OrZero(tg, "mining")
    /\ totals.military > OrZero(tg, "military")
    /\ totals.commerce > OrZero(tg, "commerce")

\* the mining target compared with the agriculture total
meetTargets_WrongStat(totals, tg) ==
    /\ totals.agriculture >= OrZero(tg, "agriculture")
    /\ totals.agriculture >= OrZero(tg, "mining")
    /\ totals.military >= OrZero(tg, "military")
    /\ totals.commerce >= OrZero(tg, "commerce")

meetTargets(totals, tg) ==
    /\ totals.agriculture >= OrZero(tg, "agriculture")
    /\ totals.mining >= OrZero(tg, "mining")
    /\ totals.military >= OrZero(tg, "military")
    /\ totals.commerce >= OrZero(tg, "commerce")

\* the keys of slotMapping in Solver.search, and the physical slot of each
LogicalSlots == {"mainHall", "cityWall", "plaza", "westMarket1",
                 "westMarket2", "eastMarket1", "eastMarket2"}

SlotKey(slot) ==
    CASE slot = "mainHall" -> "ZhuDian"
      [] slot = "cityWall" -> "ChengQiang"
      [] slot = "plaza" -> "GuangChang"
      [] slot = "westMarket1" -> "XiFang"
      [] slot = "westMarket2" -> "XiShi"
      [] slot = "eastMarket1" -> "DongFang"
      [] slot = "eastMarket2" -> "DongShi"

\* buildingsBySlot[key] || []
SlotBuildings(bbs, key) == IF key \in DOMAIN bbs THEN bbs[key] ELSE <<>>

\* the enabled flag not tested
RECURSIVE FilterEnabled_IgnoresFlag(_, _)
FilterEnabled_IgnoresFlag(bbs, es) ==
    IF es = <<>> THEN <<>>
    ELSE LET e == Head(es)
             rest == FilterEnabled_IgnoresFlag(bbs, Tail(es))
         IN  IF e.slot \in LogicalSlots
             THEN IF Len(SlotBuildings(bbs, SlotKey(e.slot))) > 0
                  THEN <<[key |-> SlotKey(e.slot),
                          buildings |-> SlotBuildings(bbs, SlotKey(e.slot))]>>
                       \o rest
                  ELSE rest
             ELSE rest

\* the buildings.length > 0 test left out
RECURSIVE FilterEnabled_KeepsEmpty(_, _)
FilterEnabled_KeepsEmpty(bbs, es) ==
    IF es = <<>> THEN <<>>
    ELSE LET e == Head(es)
             rest == FilterEnabled_KeepsEmpty(bbs, Tail(es))
         IN  IF e.enabled /\ e.slot \in LogicalSlots
             THEN <<[key |-> SlotKey(e.slot),
                     buildings |-> SlotBuildings(bbs, SlotKey(e.slot))]>>
                  \o rest
             ELSE rest

\* the forEach over Object.entries(enabledSlots): the entries pushed to
\* slots / slotNames, in order
RECURSIVE FilterEnabled(_, _)
FilterEnabled(bbs, es) ==
    IF es = <<>> THEN <<>>
    ELSE LET e == Head(es)
             rest == FilterEnabled(bbs, Tail(es))
         IN  IF e.enabled /\ e.slot \in LogicalSlots
             THEN IF Len(SlotBuildings(bbs, SlotKey(e.slot))) > 0
                  THEN <<[key |-> SlotKey(e.slot),
                          buildings |-> SlotBuildings(bbs, SlotKey(e.slot))]>>
                       \o rest
                  ELSE rest
             ELSE rest

\* the combinations in the order in which generateCombinations hands them
\* to its callback; index is 1-based here
RECURSIVE generateCombinations(_, _, _)
RECURSIVE GenerateFrom(_, _, _, _)
generateCombinations(slots, index, current) ==
    IF index = Len(slots) + 1 THEN <<current>>
    ELSE GenerateFrom(slots, index, current, 1)

\* the for-of loop over slots[index], from its i-th building on
GenerateFrom(slots, index, current, i) ==
    IF i > Len(slots[index]) THEN <<>>
    ELSE generateCombinations(slots, index + 1, Append(current, slots[index][i]))
         \o GenerateFrom(slots, index, current, i + 1)

\* the callback of Solver.search applied to the combinations in order: the
\* results array before sorting
\* every entry labelled with the first slot name
RECURSIVE Collect_FirstSlotName(_, _, _, _, _)
Collect_FirstSlotName(combinations, slotNames, tg, te, tm) ==
    IF combinations = <<>> THEN <<>>
    ELSE LET combination == Head(combinations)
             totals == calculateTotals(combination, te, tm)
             rest == Collect_FirstSlotName(Tail(combinations), slotNames, tg, te, tm)
         IN  IF meetTargets(totals, tg)
             THEN <<[buildings |-> [i \in 1..Len(combination) |->
                                      [slot |-> slotNames[1],
                                       building |-> combination[i]]],
                     totals |-> totals,
                     thresholdScore |-> calculateThresholdScore(totals),
                     thresholdDetails |->
                         [s \in Stats |-> countThresholds(totals[s])]]>>
                  \o rest
             ELSE rest

RECURSIVE Collect(_, _, _, _, _)
Collect(combinations, slotNames, tg, te, tm) ==
    IF combinations = <<>> THEN <<>>
    ELSE LET combination == Head(combinations)
             totals == calculateTotals(combination, te, tm)
             rest == Collect(Tail(combinations), slotNames, tg, te, tm)
         IN  IF meetTargets(totals, tg)
             THEN <<[buildings |-> [i \in 1..Len(combination) |->
                                      [slot |-> slotNames[i],
                                       building |-> combination[i]]],
                     totals |-> totals,
                     thresholdScore |-> calculateThresholdScore(totals),
                     thresholdDetails |->
                         [s \in Stats |-> countThresholds(totals[s])]]>>
                  \o rest
             ELSE rest

\* an insertion that puts a result before the earlier results of equal score
RECURSIVE InsertSorted_BeforeEqual(_, _)
InsertSorted_BeforeEqual(sorted, r) ==
    IF sorted = <<>> THEN <<r>>
    ELSE IF Head(sorted).thresholdScore <= r.thresholdScore
         THEN <<r>> \o sorted
         ELSE <<Head(sorted)>> \o InsertSorted_BeforeEqual(Tail(sorted), r)

\* results.sort((a, b) => b.thresholdScore - a.thresholdScore): a stable
\* sort (ECMAScript 2019), here by insertion from the left
RECURSIVE InsertSorted(_, _)
InsertSorted(sorted, r) ==
    IF sorted = <<>> THEN <<r>>
    ELSE IF Head(sorted).thresholdScore < r.thresholdScore
         THEN <<r>> \o sorted
         ELSE <<Head(sorted)>> \o InsertSorted(Tail(sorted), r)

RECURSIVE SortByScore(_)
SortByScore(arr) ==
    IF arr = <<>> THEN <<>>
    ELSE InsertSorted(SortByScore(SubSeq(arr, 1, Len(arr) - 1)), arr[Len(arr)])

DefaultMaxResults == 5

\* the results cut to maxResults before they are sorted
search_SliceBeforeSort(bbs, es, tg, te, mr, tm) ==
    LET active == FilterEnabled(bbs, es)
        slots == [i \in 1..Len(active) |-> active[i].buildings]
        slotNames == [i \in 1..Len(active) |-> active[i].key]
        limit == IF mr.given THEN mr.value ELSE DefaultMaxResults
    IN  IF Len(slots) = 0 THEN <<>>
        ELSE SortByScore(Slice(Collect(generateCombinations(slots, 1, <<>>),
                                       slotNames, tg, te, tm),
                               limit))

\* the early return for slots.length === 0 left out
search_NoEarlyReturn(bbs, es, tg, te, mr, tm) ==
    LET active == FilterEnabled(bbs, es)
        slots == [i \in 1..Len(active) |-> active[i].buildings]
        slotNames == [i \in 1..Len(active) |-> active[i].key]
        limit == IF mr.given THEN mr.value ELSE DefaultMaxResults
    IN  Slice(SortByScore(Collect(generateCombinations(slots, 1, <<>>),
                                  slotNames, tg, te, tm)),
              limit)

search(bbs, es, tg, te, mr, tm) ==
    LET active == FilterEnabled(bbs, es)
        slots == [i \in 1..Len(active) |-> active[i].buildings]
        slotNames == [i \in 1..Len(active) |-> active[i].key]
        limit == IF mr.given THEN mr.value ELSE DefaultMaxResults
    IN  IF Len(slots) = 0 THEN <<>>
        ELSE Slice(SortByScore(Collect(generateCombinations(slots, 1, <<>>),
                                       slotNames, tg, te, tm)),
                   limit)

\* counts of 2 given the class of 1
getThresholdClass_NoMid(thresholdCount) ==
    IF thresholdCount >= 4 THEN "threshold-max"
    ELSE IF thresholdCount >= 3 THEN "threshold-high"
    ELSE IF thresholdCount >= 1 THEN "threshold-low"
    ELSE "threshold-none"

getThresholdClass(thresholdCount) ==
    IF thresholdCount >= 4 THEN "threshold-max"
    ELSE IF thresholdCount >= 3 THEN "threshold-high"
    ELSE IF thresholdCount >= 2 THEN "threshold-mid"
    ELSE IF thresholdCount >= 1 THEN "threshold-low"
    ELSE "threshold-none"

\* the forEach of estimateCombinations from the entries es on, total so far
RECURSIVE EstimateFrom(_, _, _)
EstimateFrom(bbs, es, total) ==
    IF es = <<>> THEN total
    ELSE LET e == Head(es)
             buildings == IF e.slot \in LogicalSlots
                          THEN SlotBuildings(bbs, SlotKey(e.slot)) ELSE <<>>
         IN  IF e.enabled /\ e.slot \in LogicalSlots /\ Len(buildings) > 0
             THEN EstimateFrom(bbs, Tail(es), total * Len(buildings))
             ELSE EstimateFrom(bbs, Tail(es), total)

\* the enabled flag not tested
RECURSIVE EstimateFrom_IgnoresFlag(_, _, _)
EstimateFrom_IgnoresFlag(bbs, es, total) ==
    IF es = <<>> THEN total
    ELSE LET e == Head(es)
             buildings == IF e.slot \in LogicalSlots
                          THEN SlotBuildings(bbs, SlotKey(e.slot)) ELSE <<>>
         IN  IF e.slot \in LogicalSlots /\ Len(buildings) > 0
             THEN EstimateFrom_IgnoresFlag(bbs, Tail(es), total * Len(buildings))
             ELSE EstimateFrom_IgnoresFlag(bbs, Tail(es), total)

estimateCombinations_IgnoresFlag(bbs, es) == EstimateFrom_IgnoresFlag(bbs, es, 1)

estimateCombinations(bbs, es) == EstimateFrom(bbs, es, 1)

-----------------------------------------------------------------------------
(* The inputs the arguments are drawn from *)

\* building records; a stat or the trait may be missing from a record
Hut == [id |-> 1, agriculture |-> 20, trait |-> ""]

Mill == [id |-> 2, agriculture |-> 40, mining |-> 15, military |-> 0,
         commerce |-> 0, trait |-> "T1"]

Fort == [id |-> 3, agriculture |-> 0, mining |-> 0, military |-> 20,
         commerce |-> 20, trait |-> "T9"]

Catalog == {Hut, Mill, Fort}

CandidateLists == UNION {[1..n -> Catalog] : n \in 0..MaxCand}

InputKeys == {"ZhuDian", "DongFang"}

\* a slot key may be missing from the object
BuildingsBySlotInputs ==
    [InputKeys -> CandidateLists] \cup [{"ZhuDian"} -> CandidateLists]

\* "garden" is a key slotMapping does not have
InputSlots == {"mainHall", "eastMarket1", "garden"}

Entries ==
    {e \in [slot : InputSlots, enabled : BOOLEAN] :
        e.slot \in LogicalSlots \/ e.enabled}

EnabledSlotsInputs ==
    {es \in UNION {[1..n -> Entries] : n \in 0..MaxEntries} :
        \A i, j \in 1..Len(es) : i # j => es[i].slot # es[j].slot}

EmptyTable == [t \in {} |-> [agriculture |-> 0]]

TableA == [t \in {"T1"} |->
             [agriculture |-> 10, mining |-> 0, military |-> 0,
              commerce |-> 0, extraEffect |-> ""]]

\* a loaded table; an effect may lack fields
TableB == [t \in {"T1", "T2"} |->
             IF t = "T1" THEN [mining |-> 30, extraEffect |-> "x"]
             ELSE [agriculture |-> 5, mining |-> 5, military |-> 5,
                   commerce |-> 5, extraEffect |-> ""]]

TraitEffectsInputs ==
    {[given |-> FALSE, table |-> EmptyTable],
     [given |-> TRUE, table |-> EmptyTable],
     [given |-> TRUE, table |-> TableA]}

LoadableTables == {EmptyTable, TableB}

TargetsInputs ==
    {EmptyTable,
     [agriculture |-> 60],
     [agriculture |-> 15, mining |-> 40, military |-> 0, commerce |-> 0]}

MaxResultsInputs ==
    {[given |-> FALSE, value |-> 0]} \cup
    {[given |-> TRUE, value |-> n] : n \in -1..MaxN}

RECURSIVE SumLens(_, _)
SumLens(bbs, keys) ==
    IF keys = {} THEN 0
    ELSE LET k == CHOOSE x \in keys : TRUE
         IN  Len(bbs[k]) + SumLens(bbs, keys \ {k})

\* the size of the arguments: candidates, entries and options passed
Size(bbs, es, tg, te, mr) ==
    SumLens(bbs, DOMAIN bbs) + Len(es) + (IF tg = EmptyTable THEN 0 ELSE 1)
    + (IF te.given THEN 1 ELSE 0) + (IF mr.given THEN 1 ELSE 0)

-----------------------------------------------------------------------------
(* The state machine *)

\* the helper operations have not been called and have no arguments
HelpersIdle ==
    /\ estimate = <<>>
    /\ value = 0
    /\ count = <<>>
    /\ selectedBuildings = <<>>
    /\ bonus = <<>>

\* App.search has not been called
AppIdle ==
    /\ triggers = 0
    /\ timers = <<>>
    /\ rendered = <<>>
    /\ display = "empty"
    /\ triggered = <<>>

ModalKinds == {"input", "alert", "confirm"}

\* nothing is stored and no Storage operation has been called
StorageIdle ==
    /\ store = [userBuildings |-> <<>>, configs |-> <<>>, current |-> <<>>]
    /\ lastCall = [op |-> "none"]
    /\ exported = <<>>

\* no dialog has been opened
ModalIdle ==
    /\ dialogs = <<>>
    /\ modalActive = [k \in ModalKinds |-> FALSE]
    /\ activeModalCleanup = 0

\* the other operations have not been called and have no arguments
RestIdle ==
    /\ userBuildings = <<>>
    /\ grouped = FALSE
    /\ thresholdClass = <<>>
    /\ extraEffects = <<>>

Init ==
    /\ enabledSlots \in EnabledSlotsInputs
    /\ buildingsBySlot \in BuildingsBySlotInputs
    /\ SumLens(buildingsBySlot, DOMAIN buildingsBySlot) + Len(enabledSlots)
         <= MaxSize
    /\ targets \in TargetsInputs
    /\ traitEffects \in TraitEffectsInputs
    /\ maxResults \in MaxResultsInputs
    /\ Size(buildingsBySlot, enabledSlots, targets, traitEffects, maxResults)
         <= MaxSize
    /\ traits = EmptyTable
    /\ called = FALSE
    /\ results = <<>>
    /\ traitsAtCall = EmptyTable
    /\ firstResults = <<>>
    /\ HelpersIdle
    /\ AppIdle
    /\ RestIdle
    /\ StorageIdle
    /\ ModalIdle

\* TraitsManager.loadFromURL: the parsed table replaces this.traits
LoadTraits(t) ==
    /\ traits' = t
    /\ UNCHANGED <<buildingsBySlot, enabledSlots, targets, traitEffects,
                   maxResults, called, results, traitsAtCall, firstResults>>
    /\ UNCHANGED helperVars
    /\ UNCHANGED appVars
    /\ UNCHANGED restVars
    /\ UNCHANGED storageVars
    /\ UNCHANGED modalVars

\* a search that takes the candidates out of the lists it enumerates
Search_ConsumesCandidates ==
    /\ LET r == search(buildingsBySlot, enabledSlots, targets, traitEffects,
                       maxResults, traits)
       IN  /\ results' = r
           /\ firstResults' = IF called THEN firstResults ELSE r
    /\ traitsAtCall' = IF traitEffects.given THEN traitsAtCall ELSE traits
    /\ called' = TRUE
    /\ buildingsBySlot' = [k \in DOMAIN buildingsBySlot |-> <<>>]
    /\ UNCHANGED <<enabledSlots, targets, traitEffects, maxResults, traits>>
    /\ UNCHANGED helperVars
    /\ UNCHANGED appVars
    /\ UNCHANGED restVars
    /\ UNCHANGED storageVars
    /\ UNCHANGED modalVars

\* a call Solver.search(buildingsBySlot, enabledSlots, targets,
\* traitEffects, maxResults)
Search ==
    /\ LET r == search(buildingsBySlot, enabledSlots, targets, traitEffects,
                       maxResults, traits)
       IN  /\ results' = r
           /\ firstResults' = IF called THEN firstResults ELSE r
    /\ traitsAtCall' = IF traitEffects.given THEN traitsAtCall ELSE traits
    /\ called' = TRUE
    /\ UNCHANGED <<buildingsBySlot, enabledSlots, targets, traitEffects,
                   maxResults, traits>>
    /\ UNCHANGED helperVars
    /\ UNCHANGED appVars
    /\ UNCHANGED restVars
    /\ UNCHANGED storageVars
    /\ UNCHANGED modalVars

Next ==
    \/ \E t \in LoadableTables : LoadTraits(t)
    \/ Search

Spec == Init /\ [][Next]_vars

-----------------------------------------------------------------------------
(* Solver.estimateCombinations and Solver.search on lists of given sizes *)

\* a list of n candidates
ListOfLen(n) == [i \in 1..n |-> Hut]

EstimateKeys == {"ZhuDian", "ChengQiang", "GuangChang"}

EstimateSlots == <<"mainHall", "cityWall", "plaza">>

InitEstimate ==
    /\ buildingsBySlot \in
          [EstimateKeys -> {ListOfLen(n) : n \in 0..MaxListLen}]
    /\ SumLens(buildingsBySlot, EstimateKeys) <= MaxTotalLen
    /\ \E flags \in [1..Len(EstimateSlots) -> BOOLEAN] :
          enabledSlots = [i \in 1..Len(EstimateSlots) |->
                            [slot |-> EstimateSlots[i], enabled |-> flags[i]]]
    /\ targets = EmptyTable
    /\ traitEffects = [given |-> FALSE, table |-> EmptyTable]
    /\ maxResults = [given |-> FALSE, value |-> 0]
    /\ traits = EmptyTable
    /\ called = FALSE
    /\ results = <<>>
    /\ traitsAtCall = EmptyTable
    /\ firstResults = <<>>
    /\ HelpersIdle
    /\ AppIdle
    /\ RestIdle
    /\ StorageIdle
    /\ ModalIdle

\* a call Solver.estimateCombinations(buildingsBySlot, enabledSlots)
Estimate ==
    /\ estimate' = <<estimateCombinations(buildingsBySlot, enabledSlots)>>
    /\ UNCHANGED solverVars
    /\ UNCHANGED <<value, count, selectedBuildings, bonus>>
    /\ UNCHANGED appVars
    /\ UNCHANGED restVars
    /\ UNCHANGED storageVars
    /\ UNCHANGED modalVars

NextEstimate == Estimate \/ Search

SpecEstimate == InitEstimate /\ [][NextEstimate]_vars

-----------------------------------------------------------------------------
(* Solver.search on slots that hold one candidate each *)

\* a building record with one stat field and no trait field
Barn == [id |-> 5, agriculture |-> 40]

SingleLists == {<<b>> : b \in Catalog \cup {Barn}}

InitSingle ==
    /\ buildingsBySlot \in
          [InputKeys -> SingleLists] \cup [{"ZhuDian"} -> SingleLists]
    /\ enabledSlots \in EnabledSlotsInputs
    /\ targets \in {EmptyTable, [agriculture |-> 50],
                     [agriculture |-> 15, mining |-> 40, military |-> 0,
                      commerce |-> 0]}
    /\ traitEffects \in TraitEffectsInputs
    /\ maxResults \in MaxResultsInputs
    /\ traits = EmptyTable
    /\ called = FALSE
    /\ results = <<>>
    /\ traitsAtCall = EmptyTable
    /\ firstResults = <<>>
    /\ HelpersIdle
    /\ AppIdle
    /\ RestIdle
    /\ StorageIdle
    /\ ModalIdle

SpecSingle == InitSingle /\ [][Next]_vars

-----------------------------------------------------------------------------
(* Solver.countThresholds on a stat value *)

\* the solver has no arguments and has not been called
SolverIdle ==
    /\ buildingsBySlot = <<>>
    /\ enabledSlots = <<>>
    /\ targets = EmptyTable
    /\ traitEffects = [given |-> FALSE, table |-> EmptyTable]
    /\ maxResults = [given |-> FALSE, value |-> 0]
    /\ traits = EmptyTable
    /\ called = FALSE
    /\ results = <<>>
    /\ traitsAtCall = EmptyTable
    /\ firstResults = <<>>

InitThresholds ==
    /\ SolverIdle
    /\ estimate = <<>>
    /\ value \in 0..MaxValue
    /\ count = <<>>
    /\ selectedBuildings = <<>>
    /\ bonus = <<>>
    /\ AppIdle
    /\ RestIdle
    /\ StorageIdle
    /\ ModalIdle

\* a call Solver.countThresholds(value)
CountThresholds ==
    /\ count' = <<countThresholds(value)>>
    /\ UNCHANGED solverVars
    /\ UNCHANGED <<estimate, value, selectedBuildings, bonus>>
    /\ UNCHANGED appVars
    /\ UNCHANGED restVars
    /\ UNCHANGED storageVars
    /\ UNCHANGED modalVars

\* a call Solver.getThresholdClass(thresholdDetails[key]) on the count
GetThresholdClass ==
    /\ count # <<>>
    /\ thresholdClass' = <<getThresholdClass(count[1])>>
    /\ UNCHANGED solverVars
    /\ UNCHANGED helperVars
    /\ UNCHANGED appVars
    /\ UNCHANGED <<userBuildings, grouped, extraEffects>>
    /\ UNCHANGED storageVars
    /\ UNCHANGED modalVars

NextThresholds == CountThresholds \/ GetThresholdClass

SpecThresholds == InitThresholds /\ [][NextThresholds]_vars

-----------------------------------------------------------------------------
(* TraitsManager.calculateTraitBonus on a list of buildings *)

\* a building record without a trait field
Shed == [id |-> 4, commerce |-> 5]

\* a building whose trait has an empty extra-effect description in TableB
Dock == [id |-> 6, commerce |-> 10, trait |-> "T2"]

SelectedInputs ==
    UNION {[1..n -> Catalog \cup {Shed, Dock}] : n \in 0..MaxSelected}

InitBonus ==
    /\ buildingsBySlot = <<>>
    /\ enabledSlots = <<>>
    /\ targets = EmptyTable
    /\ traitEffects \in TraitEffectsInputs \cup {[given |-> TRUE, table |-> TableB]}
    /\ maxResults = [given |-> FALSE, value |-> 0]
    /\ traits = EmptyTable
    /\ called = FALSE
    /\ results = <<>>
    /\ traitsAtCall = EmptyTable
    /\ firstResults = <<>>
    /\ estimate = <<>>
    /\ value = 0
    /\ count = <<>>
    /\ selectedBuildings \in SelectedInputs
    /\ bonus = <<>>
    /\ AppIdle
    /\ RestIdle
    /\ StorageIdle
    /\ ModalIdle

\* a call TraitsManager.calculateTraitBonus(selectedBuildings, traitEffects)
CalculateTraitBonus ==
    /\ bonus' = <<calculateTraitBonus(selectedBuildings, traitEffects, traits)>>
    /\ traitsAtCall' = IF traitEffects.given THEN traitsAtCall ELSE traits
    /\ UNCHANGED <<buildingsBySlot, enabledSlots, targets, traitEffects,
                   maxResults, traits, called, results, firstResults>>
    /\ UNCHANGED <<estimate, value, count, selectedBuildings>>
    /\ UNCHANGED appVars
    /\ UNCHANGED restVars
    /\ UNCHANGED storageVars
    /\ UNCHANGED modalVars

\* a call TraitsManager.getExtraEffects(selectedBuildings)
GetExtraEffects ==
    /\ extraEffects' = <<getExtraEffects(selectedBuildings, traits)>>
    /\ UNCHANGED solverVars
    /\ UNCHANGED helperVars
    /\ UNCHANGED appVars
    /\ UNCHANGED <<userBuildings, grouped, thresholdClass>>
    /\ UNCHANGED storageVars
    /\ UNCHANGED modalVars

NextBonus ==
    \/ \E t \in LoadableTables : LoadTraits(t)
    \/ CalculateTraitBonus
    \/ GetExtraEffects

SpecBonus == InitBonus /\ [][NextBonus]_vars

-----------------------------------------------------------------------------
(* App: the search button, the edits of the configuration and the timers.
   Here buildingsBySlot is App.state.userBuildingsBySlot, enabledSlots is
   App.state.currentConfig.slots, targets is App.state.currentConfig.targets
   and traits is TraitsManager.traits. *)

UserBuildingInputs ==
    {[k \in InputKeys |-> <<>>],
     [k \in InputKeys |-> IF k = "ZhuDian" THEN <<Hut, Mill>> ELSE <<Fort>>]}

ConfigSlots == <<"mainHall", "eastMarket1">>

TargetValues == {0, 50}

InitApp ==
    /\ buildingsBySlot \in UserBuildingInputs
    /\ enabledSlots = [i \in 1..Len(ConfigSlots) |->
                         [slot |-> ConfigSlots[i], enabled |-> i = 1]]
    /\ targets = [s \in Stats |-> 0]
    /\ traitEffects = [given |-> FALSE, table |-> EmptyTable]
    /\ maxResults = [given |-> FALSE, value |-> 0]
    /\ traits = TableA
    /\ called = FALSE
    /\ results = <<>>
    /\ traitsAtCall = EmptyTable
    /\ firstResults = <<>>
    /\ HelpersIdle
    /\ AppIdle
    /\ RestIdle
    /\ StorageIdle
    /\ ModalIdle

\* this.state.userBuildings.length: every user building is in one list
UserBuildingsCount == SumLens(buildingsBySlot, DOMAIN buildingsBySlot)

\* App.onSlotChange: the checkbox of the i-th slot set to checked
OnSlotChange(i, checked) ==
    /\ enabledSlots' = [enabledSlots EXCEPT ![i].enabled = checked]
    /\ UNCHANGED <<buildingsBySlot, targets, traitEffects, maxResults, traits,
                   called, results, traitsAtCall, firstResults>>
    /\ UNCHANGED helperVars
    /\ UNCHANGED appVars
    /\ UNCHANGED restVars
    /\ UNCHANGED storageVars
    /\ UNCHANGED modalVars

\* App.onTargetChange: the input of one target set to v
OnTargetChange(key, v) ==
    /\ targets' = [targets EXCEPT ![key] = v]
    /\ UNCHANGED <<buildingsBySlot, enabledSlots, traitEffects, maxResults,
                   traits, called, results, traitsAtCall, firstResults>>
    /\ UNCHANGED helperVars
    /\ UNCHANGED appVars
    /\ UNCHANGED restVars
    /\ UNCHANGED storageVars
    /\ UNCHANGED modalVars

\* App.loadUserBuildings after a building was added or removed: the user
\* buildings read from the store again and grouped by slot
LoadUserBuildings(bbs) ==
    /\ buildingsBySlot' = bbs
    /\ UNCHANGED <<enabledSlots, targets, traitEffects, maxResults, traits,
                   called, results, traitsAtCall, firstResults>>
    /\ UNCHANGED helperVars
    /\ UNCHANGED appVars
    /\ UNCHANGED restVars
    /\ UNCHANGED storageVars
    /\ UNCHANGED modalVars

\* App.search: the click on the search button
AppSearch ==
    /\ triggers < MaxTriggers
    /\ triggers' = triggers + 1
    /\ IF UserBuildingsCount = 0
       THEN /\ display' = "noBuildings"
            /\ UNCHANGED timers
       ELSE /\ display' = "loading"
            /\ timers' = Append(timers, triggers + 1)
    /\ triggered' = Append(triggered, [buildingsBySlot |-> buildingsBySlot,
                                       enabledSlots |-> enabledSlots,
                                       targets |-> targets])
    /\ UNCHANGED rendered
    /\ UNCHANGED solverVars
    /\ UNCHANGED helperVars
    /\ UNCHANGED restVars
    /\ UNCHANGED storageVars
    /\ UNCHANGED modalVars

\* the callback App.search gave to setTimeout runs: equal delays, so the
\* oldest pending callback runs first
TimerFires ==
    /\ timers # <<>>
    /\ LET r == search(buildingsBySlot, enabledSlots, targets,
                       [given |-> TRUE, table |-> traits],
                       [given |-> TRUE, value |-> 5], traits)
       IN  /\ rendered' = Append(rendered, [trigger |-> Head(timers),
                                            latest |-> triggers,
                                            searched |-> UserBuildingsCount,
                                            results |-> r])
           /\ display' = IF r = <<>> THEN "noResults" ELSE "results"
    /\ timers' = Tail(timers)
    /\ UNCHANGED <<triggers, triggered>>
    /\ UNCHANGED solverVars
    /\ UNCHANGED helperVars
    /\ UNCHANGED restVars
    /\ UNCHANGED storageVars
    /\ UNCHANGED modalVars

NextApp ==
    \/ \E i \in 1..Len(ConfigSlots), checked \in BOOLEAN : OnSlotChange(i, checked)
    \/ \E v \in TargetValues : OnTargetChange("agriculture", v)
    \/ \E bbs \in UserBuildingInputs : LoadUserBuildings(bbs)
    \/ AppSearch
    \/ TimerFires

SpecApp == InitApp /\ [][NextApp]_vars

-----------------------------------------------------------------------------
(* Storage.  An item of localStorage is <<>> when absent and <<v>> when it
   holds the JSON text of v; the values stored here are strings, numbers,
   booleans, arrays and plain objects, which JSON.parse(JSON.stringify(v))
   gives back unchanged.  A write may fail (setItem throws). *)

Times == 1..MaxTime

\* data ? JSON.parse(data) : []
getConfigs(st) == IF st.configs = <<>> THEN <<>> ELSE st.configs[1]

getUserBuildings(st) ==
    IF st.userBuildings = <<>> THEN <<>> ELSE st.userBuildings[1]

getDefaultConfig ==
    [slots |-> [mainHall |-> TRUE, cityWall |-> TRUE, plaza |-> TRUE,
                westMarket1 |-> TRUE, westMarket2 |-> TRUE,
                eastMarket1 |-> FALSE, eastMarket2 |-> FALSE],
     targets |-> [agriculture |-> 0, mining |-> 0, military |-> 0,
                  commerce |-> 0]]

getCurrentConfig(st) ==
    IF st.current = <<>> THEN getDefaultConfig ELSE st.current[1]

\* configs.findIndex(c => c.name === name), 0 for -1
FindIndex(configs, name) ==
    IF \E i \in 1..Len(configs) : configs[i].name = name
    THEN CHOOSE i \in 1..Len(configs) :
            /\ configs[i].name = name
            /\ \A j \in 1..(i - 1) : configs[j].name # name
    ELSE 0

configData(name, config, now) ==
    [name |-> name, slots |-> config.slots, targets |-> config.targets,
     updatedAt |-> now]

\* the entry pushed whether or not the name exists
saveConfig_AlwaysPushes(configs, name, config, now) ==
    Append(configs, configData(name, config, now))

\* the list saveConfig writes
saveConfig(configs, name, config, now) ==
    LET existingIndex == FindIndex(configs, name)
    IN  IF existingIndex >= 1
        THEN [configs EXCEPT ![existingIndex] = configData(name, config, now)]
        ELSE Append(configs, configData(name, config, now))

\* the list deleteConfig writes
deleteConfig(configs, name) == SelectSeq(configs, LAMBDA c : c.name # name)

ConfigNames == {"a", "b"}

CfgA == [slots |-> [mainHall |-> TRUE], targets |-> [agriculture |-> 0]]

CfgB == [slots |-> [mainHall |-> FALSE], targets |-> [agriculture |-> 50]]

ConfigInputs == {CfgA, CfgB}

InitConfigs ==
    /\ SolverIdle
    /\ HelpersIdle
    /\ AppIdle
    /\ RestIdle
    /\ StorageIdle
    /\ ModalIdle

\* a call Storage.saveConfig(name, config) at time now; ok: the write succeeds
SaveConfig(name, config, now, ok) ==
    /\ store' = IF ok
                THEN [store EXCEPT !.configs =
                        <<saveConfig(getConfigs(store), name, config, now)>>]
                ELSE store
    /\ lastCall' = [op |-> "saveConfig", name |-> name, config |-> config,
                    now |-> now, ret |-> ok]
    /\ UNCHANGED exported
    /\ UNCHANGED <<solverVars, helperVars, appVars, restVars, modalVars>>

\* a call Storage.deleteConfig(name); ok: the write succeeds
DeleteConfig(name, ok) ==
    /\ store' = IF ok
                THEN [store EXCEPT !.configs =
                        <<deleteConfig(getConfigs(store), name)>>]
                ELSE store
    /\ lastCall' = [op |-> "deleteConfig", name |-> name, ret |-> ok]
    /\ UNCHANGED exported
    /\ UNCHANGED <<solverVars, helperVars, appVars, restVars, modalVars>>

NextConfigs ==
    \/ \E name \in ConfigNames, config \in ConfigInputs, now \in Times,
          ok \in BOOLEAN : SaveConfig(name, config, now, ok)
    \/ \E name \in ConfigNames, ok \in BOOLEAN : DeleteConfig(name, ok)

SpecConfigs == InitConfigs /\ [][NextConfigs]_vars

\* { ...building, id, addedAt }: the id and the time come from one clock reading
WithId(building, now) ==
    [f \in DOMAIN building \cup {"id", "addedAt"} |->
        IF f = "id" THEN now ELSE IF f = "addedAt" THEN now ELSE building[f]]

NewBuildings == {[type |-> "FangShi", commerce |-> 15, id |-> 0]}

\* a call Storage.addUserBuilding(building) at time now; ok: the write in
\* saveUserBuildings succeeds.  saveUserBuildings catches a failed write and
\* returns false, which addUserBuilding does not look at.
AddUserBuilding(building, now, ok) ==
    /\ Len(getUserBuildings(store)) < MaxStored
    /\ LET buildings == getUserBuildings(store)
           newBuilding == WithId(building, now)
       IN  /\ store' = IF ok
                       THEN [store EXCEPT !.userBuildings =
                               <<Append(buildings, newBuilding)>>]
                       ELSE store
           /\ lastCall' = [op |-> "addUserBuilding", wrote |-> ok,
                           ret |-> <<newBuilding>>]
    /\ UNCHANGED exported
    /\ UNCHANGED <<solverVars, helperVars, appVars, restVars, modalVars>>

\* a call Storage.exportAllData() at time now
ExportAllData(now) ==
    /\ LET data == [version |-> "1.0", exportedAt |-> now,
                    userBuildings |-> [isArray |-> TRUE,
                                       items |-> getUserBuildings(store)],
                    searchConfigs |-> [isArray |-> TRUE,
                                       items |-> getConfigs(store)],
                    currentConfig |-> getCurrentConfig(store)]
       IN  /\ exported' = <<data>>
           /\ lastCall' = [op |-> "exportAllData", ret |-> data]
    /\ UNCHANGED store
    /\ UNCHANGED <<solverVars, helperVars, appVars, restVars, modalVars>>

\* !data || !data.version
LacksVersion(data) ==
    "null" \in DOMAIN data \/ "version" \notin DOMAIN data \/ data.version = ""

\* data[section] && Array.isArray(data[section])
HasArray(data, section) ==
    section \in DOMAIN data /\ data[section].isArray

\* the store and the value importAllData ends with; oks[i]: the i-th write
\* (user buildings, configs, current config) succeeds.  A failed write of the
\* user buildings or of the current config is caught where it is made; a
\* failed write of the configs is caught by importAllData itself.
importAllData(st, data, oks) ==
    IF LacksVersion(data) THEN [store |-> st, ret |-> FALSE]
    ELSE LET s1 == IF HasArray(data, "userBuildings") /\ oks[1]
                   THEN [st EXCEPT !.userBuildings =
                           <<data.userBuildings.items>>]
                   ELSE st
             s2 == IF HasArray(data, "searchConfigs")
                   THEN [s1 EXCEPT !.configs = <<data.searchConfigs.items>>]
                   ELSE s1
             s3 == IF "currentConfig" \in DOMAIN data /\ oks[3]
                   THEN [s2 EXCEPT !.current = <<data.currentConfig>>]
                   ELSE s2
         IN  IF HasArray(data, "searchConfigs") /\ ~oks[2]
             THEN [store |-> s1, ret |-> FALSE]
             ELSE [store |-> s3, ret |-> TRUE]

StoredBuilding == [type |-> "ZhuDian", agriculture |-> 20, id |-> 9, addedAt |-> 0]

ImportInputs ==
    {[null |-> TRUE],
     [userBuildings |-> [isArray |-> TRUE, items |-> <<StoredBuilding>>]],
     [version |-> "", currentConfig |-> CfgB],
     [version |-> "1.0"],
     [version |-> "1.0",
      userBuildings |-> [isArray |-> TRUE, items |-> <<StoredBuilding>>]],
     [version |-> "1.0", userBuildings |-> [isArray |-> FALSE],
      searchConfigs |-> [isArray |-> TRUE,
                         items |-> <<configData("a", CfgA, 1)>>]],
     [version |-> "1.0", searchConfigs |-> [isArray |-> FALSE],
      currentConfig |-> CfgB]}

\* a call Storage.importAllData(data)
ImportAllData(data, oks) ==
    /\ LET r == importAllData(store, data, oks)
       IN  /\ store' = r.store
           /\ lastCall' = [op |-> "importAllData", data |-> data,
                           ret |-> r.ret]
    /\ UNCHANGED exported
    /\ UNCHANGED <<solverVars, helperVars, appVars, restVars, modalVars>>

\* a call Storage.importAllData(data) on what exportAllData returned
ImportExported(oks) ==
    /\ exported # <<>>
    /\ ImportAllData(exported[1], oks)

NextStorage ==
    \/ \E building \in NewBuildings, now \in Times, ok \in BOOLEAN :
          AddUserBuilding(building, now, ok)
    \/ \E now \in Times : ExportAllData(now)
    \/ \E data \in ImportInputs, oks \in [1..3 -> BOOLEAN] :
          ImportAllData(data, oks)
    \/ \E oks \in [1..3 -> BOOLEAN] : ImportExported(oks)

SpecStorage == InitConfigs /\ [][NextStorage]_vars

-----------------------------------------------------------------------------
(* App: the three dialogs.  A dialog is [kind, listening, closed, state,
   value]: listening while the listeners its opening added are on the
   buttons, closed once its modal element lost the class active, state and
   value those of its promise. *)

InitModal == InitConfigs

\* resolve(v) of the i-th dialog's promise: the first call settles it
Resolve(ds, i, v) ==
    IF ds[i].state = "pending"
    THEN [ds EXCEPT ![i].state = "resolved", ![i].value = v]
    ELSE ds

\* the listeners of the dialogs from i on that listen on the buttons of the
\* kind run in the order they were added: cleanup(), then resolve(v)
RECURSIVE RunListeners(_, _, _, _)
RunListeners(ds, i, kind, v) ==
    IF i > Len(ds) THEN ds
    ELSE IF ds[i].kind = kind /\ ds[i].listening
         THEN RunListeners(Resolve([ds EXCEPT ![i].listening = FALSE], i, v),
                           i + 1, kind, v)
         ELSE RunListeners(ds, i + 1, kind, v)

\* the dialogs of the kinds whose modal element is not active are closed
MarkClosed(ds, active) ==
    [i \in 1..Len(ds) |->
        IF active[ds[i].kind] THEN ds[i] ELSE [ds[i] EXCEPT !.closed = TRUE]]

\* a call App.showInputModal, showAlertModal or showConfirmModal
ShowModal(kind) ==
    /\ Len(dialogs) < MaxDialogs
    /\ modalActive' = [modalActive EXCEPT ![kind] = TRUE]
    /\ dialogs' = Append(dialogs, [kind |-> kind, listening |-> TRUE,
                                   closed |-> FALSE, state |-> "pending",
                                   value |-> "none"])
    /\ activeModalCleanup' = Len(dialogs) + 1
    /\ lastCall' = [op |-> "showModal", kind |-> kind]
    /\ UNCHANGED <<store, exported>>
    /\ UNCHANGED <<solverVars, helperVars, appVars, restVars>>

\* a click on a button of a modal that is shown; button is "confirm" (also
\* the Enter key of the input dialog) or "cancel" (also its Escape key).
\* Every listener still on the button runs.
ClickButton(kind, button) ==
    /\ modalActive[kind]
    /\ \E i \in 1..Len(dialogs) : dialogs[i].kind = kind /\ dialogs[i].listening
    /\ button = "cancel" => kind # "alert"
    /\ modalActive' = [modalActive EXCEPT ![kind] = FALSE]
    /\ dialogs' = MarkClosed(RunListeners(dialogs, 1, kind, button),
                             modalActive')
    /\ activeModalCleanup' = 0
    /\ lastCall' = [op |-> "click", kind |-> kind, button |-> button]
    /\ UNCHANGED <<store, exported>>
    /\ UNCHANGED <<solverVars, helperVars, appVars, restVars>>

\* a call App.closeModals()
CloseModals ==
    /\ modalActive' = [k \in ModalKinds |-> FALSE]
    /\ dialogs' =
          MarkClosed(
              IF activeModalCleanup # 0
              THEN Resolve([dialogs EXCEPT ![activeModalCleanup].listening = FALSE],
                           activeModalCleanup, "closed")
              ELSE dialogs,
              modalActive')
    /\ activeModalCleanup' = 0
    /\ lastCall' = [op |-> "closeModals"]
    /\ UNCHANGED <<store, exported>>
    /\ UNCHANGED <<solverVars, helperVars, appVars, restVars>>

NextModal ==
    \/ \E kind \in ModalKinds : ShowModal(kind)
    \/ \E kind \in ModalKinds, button \in {"confirm", "cancel"} :
          ClickButton(kind, button)
    \/ CloseModals

SpecModal == InitModal /\ [][NextModal]_vars

-----------------------------------------------------------------------------
(* App.processUserBuildingsBySlot followed by Solver.search.  The building
   type of the market quarter is written FangShi. *)

MarketSlots == <<"XiFang", "XiShi", "DongFang", "DongShi">>

MarketSlotSet == {MarketSlots[i] : i \in 1..Len(MarketSlots)}

FixedSlotSet == {"ZhuDian", "ChengQiang", "GuangChang"}

\* marketSlots.includes(building.position)
HasMarketPosition(b) ==
    "position" \in DOMAIN b /\ b.position \in MarketSlotSet

\* byType[t] after the first forEach
ByType(buildings, t) ==
    SelectSeq(buildings, LAMBDA b : "type" \in DOMAIN b /\ b.type = t)

\* a market building without fixed position pushed to the first slot only
RECURSIVE DistributeMarkets_FirstSlotOnly(_, _)
DistributeMarkets_FirstSlotOnly(markets, bbs) ==
    IF markets = <<>> THEN bbs
    ELSE LET b == Head(markets)
             key == IF HasMarketPosition(b) THEN b.position ELSE MarketSlots[1]
         IN  DistributeMarkets_FirstSlotOnly(
                 Tail(markets), [bbs EXCEPT ![key] = Append(@, b)])

\* markets.forEach: the building pushed to its slot, or to the four slots
RECURSIVE DistributeMarkets(_, _)
DistributeMarkets(markets, bbs) ==
    IF markets = <<>> THEN bbs
    ELSE LET b == Head(markets)
             pushed ==
                 IF HasMarketPosition(b)
                 THEN [bbs EXCEPT ![b.position] = Append(@, b)]
                 ELSE [k \in DOMAIN bbs |->
                         IF k \in MarketSlotSet THEN Append(bbs[k], b)
                         ELSE bbs[k]]
         IN  DistributeMarkets(Tail(markets), pushed)

processUserBuildingsBySlot(buildings) ==
    DistributeMarkets(
        ByType(buildings, "FangShi"),
        [k \in FixedSlotSet \cup MarketSlotSet |->
            IF k \in FixedSlotSet THEN ByType(buildings, k) ELSE <<>>])

Palace == [id |-> 11, type |-> "ZhuDian", agriculture |-> 20]

WestShop == [id |-> 12, type |-> "FangShi", position |-> "XiFang",
             commerce |-> 20]

Stall == [id |-> 13, type |-> "FangShi", position |-> "", commerce |-> 15]

Kiosk == [id |-> 14, type |-> "FangShi", position |-> "Anywhere",
          mining |-> 15]

Cart == [id |-> 15, type |-> "FangShi", military |-> 15]

Tent == [id |-> 16, type |-> "Camp", agriculture |-> 50]

UserCatalog == {Palace, WestShop, Stall, Kiosk, Cart, Tent}

InitGroup ==
    /\ buildingsBySlot = <<>>
    /\ enabledSlots = <<[slot |-> "mainHall", enabled |-> TRUE],
                        [slot |-> "westMarket1", enabled |-> TRUE],
                        [slot |-> "eastMarket1", enabled |-> TRUE]>>
    /\ targets = [s \in Stats |-> 0]
    /\ traitEffects = [given |-> FALSE, table |-> EmptyTable]
    /\ maxResults = [given |-> FALSE, value |-> 0]
    /\ traits = EmptyTable
    /\ called = FALSE
    /\ results = <<>>
    /\ traitsAtCall = EmptyTable
    /\ firstResults = <<>>
    /\ HelpersIdle
    /\ AppIdle
    /\ userBuildings \in UNION {[1..n -> UserCatalog] : n \in 0..MaxUser}
    /\ grouped = FALSE
    /\ thresholdClass = <<>>
    /\ extraEffects = <<>>
    /\ StorageIdle
    /\ ModalIdle

\* a call App.processUserBuildingsBySlot()
ProcessUserBuildingsBySlot ==
    /\ buildingsBySlot' = processUserBuildingsBySlot(userBuildings)
    /\ grouped' = TRUE
    /\ UNCHANGED <<enabledSlots, targets, traitEffects, maxResults, traits,
                   called, results, traitsAtCall, firstResults>>
    /\ UNCHANGED helperVars
    /\ UNCHANGED appVars
    /\ UNCHANGED <<userBuildings, thresholdClass, extraEffects>>
    /\ UNCHANGED storageVars
    /\ UNCHANGED modalVars

NextGroup == ProcessUserBuildingsBySlot \/ Search

SpecGroup == InitGroup /\ [][NextGroup]_vars

-----------------------------------------------------------------------------
(* What the specification says of a call, stated without the solver's code *)

Called == called

\* the cap the latest call ran with
Limit == IF maxResults.given THEN maxResults.value ELSE DefaultMaxResults

\* the trait table the latest call looked traits up in
TableUsed == IF traitEffects.given THEN traitEffects.table ELSE traitsAtCall

IsActive(bbs, e) ==
    /\ e.enabled
    /\ e.slot \in LogicalSlots
    /\ SlotBuildings(bbs, SlotKey(e.slot)) # <<>>

\* the entries of es that take part in a search, in the order of es
ActiveEntries(bbs, es) == SelectSeq(es, LAMBDA e : IsActive(bbs, e))

CandidatesOf(bbs, e) == SlotBuildings(bbs, SlotKey(e.slot))

RECURSIVE SizeProduct(_, _, _)
\* product of the candidate-list sizes of the active entries from..Len(act)
SizeProduct(bbs, act, from) ==
    IF from > Len(act) THEN 1
    ELSE Len(CandidatesOf(bbs, act[from])) * SizeProduct(bbs, act, from + 1)

\* the n-th (from 0) assignment of one candidate per active slot in slot-major
\* order: the first slot varies slowest, candidates in list order
NthChoice(bbs, act, n) ==
    [i \in 1..Len(act) |->
        LET list == CandidatesOf(bbs, act[i])
            digit == (n \div SizeProduct(bbs, act, i + 1)) % Len(list)
        IN  [slot |-> SlotKey(act[i].slot), building |-> list[digit + 1]]]

RECURSIVE SumOverSet(_, _, _)
SumOverSet(S, f(_), acc) ==
    IF S = {} THEN acc
    ELSE LET x == CHOOSE y \in S : TRUE
         IN  SumOverSet(S \ {x}, f, acc + f(x))

\* sum of the base stat over the chosen buildings
BaseTotal(chosen, stat) ==
    SumOverSet(DOMAIN chosen, LAMBDA i : OrZero(chosen[i].building, stat), 0)

\* number of chosen buildings that carry trait t
Carriers(chosen, t) ==
    Cardinality({i \in DOMAIN chosen :
                    /\ "trait" \in DOMAIN chosen[i].building
                    /\ chosen[i].building.trait = t})

\* each trait of the table counted once per chosen building that carries it
BonusTotal(chosen, table, stat) ==
    SumOverSet(DOMAIN table \ {""},
               LAMBDA t : Carriers(chosen, t) * OrZero(table[t], stat), 0)

TotalOf(chosen, table, stat) ==
    BaseTotal(chosen, stat) + BonusTotal(chosen, table, stat)

Meets(chosen, tg, table) ==
    \A s \in Stats : TotalOf(chosen, table, s) >= OrZero(tg, s)

ScoreOf(chosen, table) ==
    SumOverSet(Stats,
               LAMBDA s : Cardinality({th \in {15, 50, 75, 100} :
                                         TotalOf(chosen, table, s) >= th}), 0)

\* the assignments in enumeration order, then those that meet the targets
Enumerated(bbs, es) ==
    LET act == ActiveEntries(bbs, es)
    IN  IF act = <<>> THEN <<>>
        ELSE [n \in 1..SizeProduct(bbs, act, 1) |-> NthChoice(bbs, act, n - 1)]

Feasible(bbs, es, tg, table) ==
    SelectSeq(Enumerated(bbs, es), LAMBDA ch : Meets(ch, tg, table))

ChosenOf(rs) == [i \in 1..Len(rs) |-> rs[i].buildings]

RECURSIVE IsSubseq(_, _)
IsSubseq(a, b) ==
    IF a = <<>> THEN TRUE
    ELSE IF b = <<>> THEN FALSE
    ELSE IF Head(a) = Head(b) THEN IsSubseq(Tail(a), Tail(b))
    ELSE IsSubseq(a, Tail(b))

Range(f) == {f[i] : i \in DOMAIN f}

-----------------------------------------------------------------------------
(* Claims *)

\* C1: every combination Solver.search returns has, in each of the four
\* stats, a total >= the target (a missing or 0 target is always met), and
\* when the number of enumerated combinations that meet the targets is
\* <= maxResults, all of them are returned.
C1_OnlyFeasibleAndAllWhenFew ==
    Called =>
        LET feasible == Feasible(buildingsBySlot, enabledSlots, targets, TableUsed)
        IN  /\ \A i \in 1..Len(results) :
                  Meets(results[i].buildings, targets, TableUsed)
            /\ Len(feasible) <= Limit =>
                  /\ Len(results) = Len(feasible)
                  /\ Range(ChosenOf(results)) = Range(feasible)

\* a call with a real target returned some combinations and dropped others,
\* and all that meet the targets fit under maxResults
C1_Witness ==
    /\ Called
    /\ \E s \in Stats : OrZero(targets, s) > 0
    /\ Len(results) >= 1
    /\ Len(results) < Len(Enumerated(buildingsBySlot, enabledSlots))
    /\ Len(Feasible(buildingsBySlot, enabledSlots, targets, TableUsed)) <= Limit

\* C2: in every returned result each stat of totals is the sum of the base
\* stat over the chosen buildings plus the bonus of each chosen building's
\* trait in the trait table the call used; a trait absent from the table or
\* an empty trait adds zero, and a trait on k chosen buildings counts k times.
C2_TotalsAreBasePlusTraitBonus ==
    Called =>
        \A i \in 1..Len(results) : \A s \in Stats :
            results[i].totals[s] =
                BaseTotal(results[i].buildings, s)
                + BonusTotal(results[i].buildings, TableUsed, s)

\* a result in which two chosen buildings carry the same trait of the table,
\* a trait with a non-zero bonus
C2_Witness ==
    /\ Called
    /\ \E i \in 1..Len(results) : \E t \in DOMAIN TableUsed :
          /\ Carriers(results[i].buildings, t) = 2
          /\ \E s \in Stats : OrZero(TableUsed[t], s) > 0

\* C3: the returned list is ordered by thresholdScore non-increasing, and the
\* results of equal thresholdScore are in the relative order in which the
\* depth-first, slot-major enumeration produced them.
C3_SortedDescendingStable ==
    Called =>
        /\ \A i, j \in 1..Len(results) :
              i < j => results[i].thresholdScore >= results[j].thresholdScore
        /\ \A v \in 0..16 :
              IsSubseq(ChosenOf(SelectSeq(results,
                                          LAMBDA r : r.thresholdScore = v)),
                       SelectSeq(Feasible(buildingsBySlot, enabledSlots,
                                          targets, TableUsed),
                                 LAMBDA ch : ScoreOf(ch, TableUsed) = v))

\* the sort moved a later, higher-scoring combination to the front and two
\* different combinations of equal score were returned
C3_Witness ==
    /\ Called
    /\ Len(results) >= 2
    /\ \E i \in 1..(Len(results) - 1) :
          /\ results[i].thresholdScore = results[i + 1].thresholdScore
          /\ results[i].buildings # results[i + 1].buildings
    /\ LET feasible == Feasible(buildingsBySlot, enabledSlots, targets, TableUsed)
       IN  results[1].buildings # feasible[1]

AllTargetsZero == \A s \in Stats : OrZero(targets, s) = 0

SortedDescending ==
    \A i, j \in 1..Len(results) :
        i < j => results[i].thresholdScore >= results[j].thresholdScore

\* C is the product of the candidate-list sizes of the enabled, non-empty slots
AvailableCombinations ==
    SizeProduct(buildingsBySlot, ActiveEntries(buildingsBySlot, enabledSlots), 1)

NoActiveSlot == ActiveEntries(buildingsBySlot, enabledSlots) = <<>>

\* C4 as stated: with all four targets 0, Solver.search returns exactly
\* min(C, maxResults) results, C the product of the candidate-list sizes of
\* the enabled, non-empty slots, sorted by descending threshold score.
C4_AsStated ==
    (Called /\ AllTargetsZero /\ Limit >= 0) =>
        /\ Len(results) = Min(AvailableCombinations, Limit)
        /\ SortedDescending

\* C4 amended: with all four targets 0, a maxResults >= 0 and at least one
\* enabled slot with a non-empty candidate list, Solver.search returns exactly
\* min(C, maxResults) results sorted by descending threshold score; with no
\* such slot it returns the empty list, although the empty product C is 1.
C4_ZeroTargetsCount ==
    (Called /\ AllTargetsZero /\ Limit >= 0) =>
        /\ Len(results) =
              IF NoActiveSlot THEN 0 ELSE Min(AvailableCombinations, Limit)
        /\ SortedDescending

\* all targets 0 and more combinations available than the cap lets through
C4_Witness ==
    /\ Called
    /\ AllTargetsZero
    /\ ~NoActiveSlot
    /\ maxResults.given
    /\ Limit >= 1
    /\ AvailableCombinations > Limit
    /\ Len(results) = Limit

Maximum(S) == IF S = {} THEN 0 ELSE CHOOSE x \in S : \A y \in S : y <= x

\* sum over the active slots of the largest base value of the stat
MaxBaseSum(stat) ==
    LET act == ActiveEntries(buildingsBySlot, enabledSlots)
    IN  SumOverSet(DOMAIN act,
                   LAMBDA i : Maximum({OrZero(b, stat) :
                                  b \in Range(CandidatesOf(buildingsBySlot, act[i]))}),
                   0)

BonusOf(b, table, stat) ==
    IF "trait" \in DOMAIN b /\ b.trait # "" /\ b.trait \in DOMAIN table
    THEN OrZero(table[b.trait], stat) ELSE 0

\* sum over the active slots of the largest base value plus trait bonus
MaxTotalSum(stat) ==
    LET act == ActiveEntries(buildingsBySlot, enabledSlots)
    IN  SumOverSet(DOMAIN act,
                   LAMBDA i : Maximum({OrZero(b, stat) + BonusOf(b, TableUsed, stat) :
                                  b \in Range(CandidatesOf(buildingsBySlot, act[i]))}),
                   0)

\* C5 as stated: if for some stat the target is strictly greater than the sum
\* over the enabled slots of the largest base value of that stat among the
\* slot's candidates, Solver.search returns an empty list, for any trait table.
C5_AsStated ==
    (Called /\ \E s \in Stats : OrZero(targets, s) > MaxBaseSum(s)) =>
        results = <<>>

\* C5 amended: if for some stat the target is strictly greater than the sum
\* over the enabled slots of the largest value of base stat plus trait bonus
\* (in the trait table the call uses) among the slot's candidates,
\* Solver.search returns an empty list.
C5_UnreachableTargetGivesEmpty ==
    (Called /\ \E s \in Stats : OrZero(targets, s) > MaxTotalSum(s)) =>
        results = <<>>

\* a target above what base stats and trait bonuses together can reach, in a
\* call where a candidate's trait does add to that stat
C5_Witness ==
    /\ Called
    /\ ~NoActiveSlot
    /\ \E s \in Stats :
          /\ OrZero(targets, s) > MaxTotalSum(s)
          /\ MaxTotalSum(s) > MaxBaseSum(s)
    /\ results = <<>>

\* C6: two calls of Solver.search with identical arguments return the same
\* results in the same order, whatever happened between the calls. (The
\* arguments never change in a behaviour, so the first and the latest call
\* have identical arguments.)
C6_SameArgumentsSameResults == Called => results = firstResults

WithLimit(n) == [given |-> TRUE, value |-> n]

\* C7: for positive m <= n the list returned with maxResults = m is the first
\* min(m, length) entries of the list returned with maxResults = n.
C7_PrefixStable ==
    (Called /\ maxResults.given /\ maxResults.value >= 1) =>
        \A n \in maxResults.value..(MaxN + MaxCand) :
            LET larger == search(buildingsBySlot, enabledSlots, targets,
                                 traitEffects, WithLimit(n), traitsAtCall)
            IN  results = SubSeq(larger, 1, Min(maxResults.value, Len(larger)))

\* the call was cut at m and a larger cap returns strictly more
C7_Witness ==
    /\ Called
    /\ maxResults.given
    /\ maxResults.value >= 1
    /\ Len(results) = maxResults.value
    /\ Len(search(buildingsBySlot, enabledSlots, targets, traitEffects,
                  WithLimit(maxResults.value + 1), traitsAtCall))
         = maxResults.value + 1

\* buildingsBySlot with the candidate list of one physical slot replaced
WithCandidates(bbs, key, list) ==
    [k \in DOMAIN bbs \cup {key} |-> IF k = key THEN list ELSE bbs[k]]

IsDisabled(e) == ~e.enabled /\ e.slot \in LogicalSlots

\* the empty list and the lists of one building
ShortLists == {<<>>} \cup {<<b>> : b \in Catalog}

\* C8: a logical slot whose enabledSlots value is false never contributes: no
\* returned result has an entry for its physical slot, and the results are
\* the same whatever candidates that slot has.
C8_DisabledSlotExcluded ==
    Called =>
        \A i \in 1..Len(enabledSlots) :
            IsDisabled(enabledSlots[i]) =>
                LET key == SlotKey(enabledSlots[i].slot)
                IN  /\ \A r \in 1..Len(results) :
                          \A j \in DOMAIN results[r].buildings :
                              results[r].buildings[j].slot # key
                    /\ \A list \in ShortLists :
                          search(WithCandidates(buildingsBySlot, key, list),
                                 enabledSlots, targets, traitEffects,
                                 maxResults, traitsAtCall) = results

\* a disabled slot that has candidates, next to results from another slot
C8_Witness ==
    /\ Called
    /\ results # <<>>
    /\ \E i \in 1..Len(enabledSlots) :
          /\ IsDisabled(enabledSlots[i])
          /\ CandidatesOf(buildingsBySlot, enabledSlots[i]) # <<>>

IsEnabledEmpty(bbs, e) ==
    e.enabled /\ e.slot \in LogicalSlots /\ CandidatesOf(bbs, e) = <<>>

\* C9: an enabled slot with an empty candidate list is dropped from the
\* search: the results are those of the same call with that slot disabled.
C9_EmptySlotIsDropped ==
    Called =>
        \A i \in 1..Len(enabledSlots) :
            IsEnabledEmpty(buildingsBySlot, enabledSlots[i]) =>
                search(buildingsBySlot,
                       [enabledSlots EXCEPT ![i].enabled = FALSE],
                       targets, traitEffects, maxResults, traitsAtCall)
                    = results

\* results whose combinations have fewer entries than there are enabled slots
C9_Witness ==
    /\ Called
    /\ \E i \in 1..Len(enabledSlots) :
          IsEnabledEmpty(buildingsBySlot, enabledSlots[i])
    /\ results # <<>>
    /\ Len(results[1].buildings)
         < Cardinality({i \in 1..Len(enabledSlots) :
                           enabledSlots[i].enabled
                           /\ enabledSlots[i].slot \in LogicalSlots})

\* C10: when no slot is both enabled and non-empty, Solver.search returns an
\* empty list, for any targets.
C10_NoActiveSlotGivesEmpty ==
    (Called /\ NoActiveSlot) => results = <<>>

\* every enabled slot is empty and the targets would be met by no building
C10_Witness ==
    /\ Called
    /\ AllTargetsZero
    /\ enabledSlots # <<>>
    /\ \A i \in 1..Len(enabledSlots) :
          IsEnabledEmpty(buildingsBySlot, enabledSlots[i])
    /\ results = <<>>

\* how many of 15, 50, 75, 100 the value meets or exceeds
TiersMet(v) ==
    IF v < 15 THEN 0 ELSE IF v < 50 THEN 1 ELSE IF v < 75 THEN 2
    ELSE IF v < 100 THEN 3 ELSE 4

\* C13: in every returned result each thresholdDetails count is the threshold
\* count of the corresponding total and lies in 0..4, and thresholdScore is
\* the sum of the four counts and lies in 0..16.
C13_ScoreIsSumOfCounts ==
    Called =>
        \A i \in 1..Len(results) :
            LET r == results[i]
            IN  /\ \A s \in Stats :
                      /\ r.thresholdDetails[s] = TiersMet(r.totals[s])
                      /\ r.thresholdDetails[s] \in 0..4
                /\ r.thresholdScore =
                      r.thresholdDetails.agriculture + r.thresholdDetails.mining
                      + r.thresholdDetails.military + r.thresholdDetails.commerce
                /\ r.thresholdScore \in 0..16

\* a result in which one stat reaches two thresholds or more and another
\* stat reaches one
C13_Witness ==
    /\ Called
    /\ \E i \in 1..Len(results) : \E s, s2 \in Stats :
          /\ s # s2
          /\ results[i].thresholdDetails[s] >= 2
          /\ results[i].thresholdDetails[s2] >= 1

\* C15: with a non-positive maxResults Solver.search behaves as if maxResults
\* had been normalized to a positive default: it returns the top-ranked kept
\* combinations up to that default, whatever the non-positive value was.
C15_NonPositiveIsNormalized ==
    (Called /\ maxResults.given /\ maxResults.value <= 0) =>
        \E d \in 1..DefaultMaxResults :
            results = search(buildingsBySlot, enabledSlots, targets,
                             traitEffects, WithLimit(d), traitsAtCall)

GivenEmptyTable == [given |-> TRUE, table |-> EmptyTable]

\* C16: a call without a trait table behaves as a call with an empty trait
\* table: no trait bonus is added, whatever trait data has been loaded.
C16_OmittedTableIsEmptyTable ==
    (Called /\ ~traitEffects.given) =>
        results = search(buildingsBySlot, enabledSlots, targets,
                         GivenEmptyTable, maxResults, traitsAtCall)

\* C17: the result of Solver.search is a function of its five arguments only:
\* with any other process-wide trait table in TraitsManager.traits the same
\* arguments give the same results.
C17_ResultDependsOnArgumentsOnly ==
    Called =>
        \A t \in LoadableTables :
            search(buildingsBySlot, enabledSlots, targets, traitEffects,
                   maxResults, t) = results

\* the enabled entries of es for recognized slots, empty lists included
EnabledEntries(es) ==
    SelectSeq(es, LAMBDA e : e.enabled /\ e.slot \in LogicalSlots)

Estimated == estimate # <<>>

\* every slot is enabled and the candidate lists have sizes 3, 2 and 4
Sizes324 ==
    /\ \A i \in 1..Len(enabledSlots) : enabledSlots[i].enabled
    /\ Len(buildingsBySlot["ZhuDian"]) = 3
    /\ Len(buildingsBySlot["ChengQiang"]) = 2
    /\ Len(buildingsBySlot["GuangChang"]) = 4

\* C11 as stated: estimateCombinations returns the product of the
\* candidate-list sizes of the enabled slots.
C11_AsStated ==
    Estimated =>
        estimate[1] = SizeProduct(buildingsBySlot, EnabledEntries(enabledSlots), 1)

\* C11: estimateCombinations returns the product of the candidate-list sizes
\* of the enabled slots whose list is not empty, and 1 when there is no such
\* slot; with three enabled slots of sizes 3, 2 and 4 it returns 24.
C11_ProductOfNonEmptyEnabled ==
    Estimated =>
        /\ estimate[1] =
              SizeProduct(buildingsBySlot,
                          ActiveEntries(buildingsBySlot, enabledSlots), 1)
        /\ Sizes324 => estimate[1] = 24

C11_Witness == Estimated /\ Sizes324

Counted == count # <<>>

\* C12: countThresholds(v) is the number of thresholds among 15, 50, 75, 100
\* that v meets or exceeds, it lies in 0..4, and a smaller value never has a
\* larger count than a larger value.
C12_CountIsMonotonic ==
    Counted =>
        /\ count[1] = TiersMet(value)
        /\ count[1] \in 0..4
        /\ \A v2 \in 0..MaxValue :
              /\ value < v2 => count[1] <= countThresholds(v2)
              /\ v2 < value => countThresholds(v2) <= count[1]

\* the count of a value that equals a threshold
C12_Witness == Counted /\ value = 50

BonusComputed == bonus # <<>>

HasKnownTrait(b, table) ==
    "trait" \in DOMAIN b /\ b.trait # "" /\ b.trait \in DOMAIN table

\* C20: calculateTraitBonus returns for each stat the sum, over the buildings
\* whose non-empty trait is a key of the mapping, of that stat's field of the
\* mapped effect, a missing field counting 0; buildings with no trait or with
\* a trait absent from the mapping add nothing.
C20_BonusIsSumOfMappedFields ==
    BonusComputed =>
        /\ \A s \in Stats :
              bonus[1][s] =
                  SumOverSet(DOMAIN selectedBuildings,
                             LAMBDA i : BonusOf(selectedBuildings[i], TableUsed, s),
                             0)
        /\ bonus[1] =
              calculateTraitBonus(
                  SelectSeq(selectedBuildings,
                            LAMBDA b : HasKnownTrait(b, TableUsed)),
                  [given |-> TRUE, table |-> TableUsed], EmptyTable)

\* a bonus computed over a building without a trait field, a building whose
\* trait is not in the mapping and a building whose mapped effect lacks a
\* stat field
C20_Witness ==
    /\ BonusComputed
    /\ \E i, j, k \in DOMAIN selectedBuildings :
          /\ "trait" \notin DOMAIN selectedBuildings[i]
          /\ "trait" \in DOMAIN selectedBuildings[j]
          /\ selectedBuildings[j].trait # ""
          /\ selectedBuildings[j].trait \notin DOMAIN TableUsed
          /\ HasKnownTrait(selectedBuildings[k], TableUsed)
          /\ \E s, s2 \in Stats :
                /\ s \notin DOMAIN TableUsed[selectedBuildings[k].trait]
                /\ OrZero(TableUsed[selectedBuildings[k].trait], s2) > 0

\* every enabled slot has exactly one candidate
OneCandidateEach ==
    \A i \in 1..Len(enabledSlots) :
        (enabledSlots[i].enabled /\ enabledSlots[i].slot \in LogicalSlots) =>
            Len(CandidatesOf(buildingsBySlot, enabledSlots[i])) = 1

\* the one assignment there is when every enabled slot has one candidate
OnlyChoice ==
    NthChoice(buildingsBySlot, ActiveEntries(buildingsBySlot, enabledSlots), 0)

\* the call kept at least one result slot: maxResults omitted or positive
PositiveLimit == Limit >= 1

\* exactly one result, whose totals are the per-stat sums
OneResultWithSums ==
    /\ Len(results) = 1
    /\ \A s \in Stats : results[1].totals[s] = TotalOf(OnlyChoice, TableUsed, s)

\* main hall holding Hut (agriculture 20), east quarter holding Barn
\* (agriculture 40), both enabled, no trait table, target agriculture 50
ExampleTwoSlots ==
    /\ DOMAIN buildingsBySlot = InputKeys
    /\ buildingsBySlot["ZhuDian"] = <<Hut>>
    /\ buildingsBySlot["DongFang"] = <<Barn>>
    /\ Len(enabledSlots) = 2
    /\ \A i \in 1..2 : enabledSlots[i].enabled /\ enabledSlots[i].slot \in LogicalSlots
    /\ TableUsed = EmptyTable
    /\ targets = [agriculture |-> 50]

\* C14 as stated: when every enabled slot has exactly one candidate and the
\* summed totals meet the targets, search returns exactly one result whose
\* totals are the per-stat sums.
C14_AsStated ==
    (Called /\ PositiveLimit /\ OneCandidateEach
       /\ Meets(OnlyChoice, targets, TableUsed)) => OneResultWithSums

\* C14: when at least one slot is enabled, every enabled slot has exactly one
\* candidate and the summed totals (base values plus trait bonus) meet the
\* targets, a search with maxResults omitted or positive returns exactly one
\* result whose totals are those sums; in the two-slot example the result has
\* agriculture total 60, agriculture count 2 and score 2.
C14_SingleCandidateSingleResult ==
    (Called /\ PositiveLimit /\ OneCandidateEach /\ ~NoActiveSlot
       /\ Meets(OnlyChoice, targets, TableUsed)) =>
        /\ OneResultWithSums
        /\ ExampleTwoSlots =>
              /\ results[1].totals.agriculture = 60
              /\ results[1].thresholdDetails =
                    [agriculture |-> 2, mining |-> 0, military |-> 0,
                     commerce |-> 0]
              /\ results[1].thresholdScore = 2

C14_Witness == Called /\ PositiveLimit /\ ExampleTwoSlots

\* C18: a call of Solver.search or of Solver.estimateCombinations leaves the
\* per-slot candidate lists (membership, order and every building record),
\* the enabledSlots map, the targets and the trait table as they were before
\* the call (a step is such a call when search or estimateCombinations has
\* returned after it).
C18_InputsUnchanged ==
    [][(called' \/ estimate' # <<>>) =>
          UNCHANGED <<buildingsBySlot, enabledSlots, targets, traitEffects,
                      maxResults, traits>>]_vars

\* both operations have been called on inputs with a candidate to enumerate
C18_Witness ==
    /\ Called
    /\ Estimated
    /\ results # <<>>

\* C19: a search triggered while an earlier one is pending supersedes it: the
\* earlier callback is cancelled, so at most one callback is pending and every
\* rendering is that of the latest trigger.
C19_NewSearchSupersedes ==
    /\ Len(timers) <= 1
    /\ \A i \in 1..Len(rendered) : rendered[i].trigger = rendered[i].latest

\* C21: every returned result has exactly one entry per active slot (enabled,
\* recognized, non-empty candidate list), in the iteration order of
\* enabledSlots, with pairwise distinct slot names, and each entry's building
\* is a member of that slot's candidate list.
C21_OneEntryPerActiveSlot ==
    Called =>
        LET act == ActiveEntries(buildingsBySlot, enabledSlots)
        IN  \A i \in 1..Len(results) :
                LET bs == results[i].buildings
                IN  /\ Len(bs) = Len(act)
                    /\ \A j \in 1..Len(bs) :
                          /\ bs[j].slot = SlotKey(act[j].slot)
                          /\ bs[j].building \in
                                Range(CandidatesOf(buildingsBySlot, act[j]))
                    /\ \A j, k \in 1..Len(bs) :
                          j # k => bs[j].slot # bs[k].slot

\* a result over two active slots, the east quarter listed before the main hall
C21_Witness ==
    /\ Called
    /\ results # <<>>
    /\ Len(results[1].buildings) = 2
    /\ enabledSlots[1].slot = "eastMarket1"

\* the market-category buildings among the user buildings
MarketBuildings ==
    {b \in Range(userBuildings) : "type" \in DOMAIN b /\ b.type = "FangShi"}

\* the latest search ran on the grouped user buildings
SearchedGrouped ==
    /\ grouped
    /\ Called
    /\ results = search(buildingsBySlot, enabledSlots, targets, traitEffects,
                        maxResults, traits)

\* the result chooses the building for two market slots
ChosenTwice(r, b) ==
    \E j, k \in 1..Len(r.buildings) :
        /\ j # k
        /\ r.buildings[j].slot \in MarketSlotSet
        /\ r.buildings[k].slot \in MarketSlotSet
        /\ r.buildings[j].building = b
        /\ r.buildings[k].building = b

\* C22: after the user buildings are grouped by slot, a market building whose
\* position is one of the four market slot names is a candidate of that slot
\* only and a market building with any other position is a candidate of all
\* four market slots; so a search that returns every combination returns one
\* in which such a building is chosen for two market slots.
C22_MarketBuildingsFanOut ==
    grouped =>
        /\ \A b \in MarketBuildings : \A k \in MarketSlotSet :
              b \in Range(buildingsBySlot[k]) <=>
                  (HasMarketPosition(b) => b.position = k)
        /\ (SearchedGrouped /\ AvailableCombinations <= Limit) =>
              \A b \in MarketBuildings :
                  ~HasMarketPosition(b) =>
                      \E i \in 1..Len(results) : ChosenTwice(results[i], b)

\* a search on grouped buildings holding a market building with a slot
\* position and one without, the latter returned for two slots at once
C22_Witness ==
    /\ SearchedGrouped
    /\ \E b \in MarketBuildings : HasMarketPosition(b)
    /\ \E b \in MarketBuildings :
          /\ ~HasMarketPosition(b)
          /\ \E i \in 1..Len(results) : ChosenTwice(results[i], b)

\* the severity classes from the lowest to the highest
SeverityClasses ==
    <<"threshold-none", "threshold-low", "threshold-mid", "threshold-high",
      "threshold-max">>

\* the place of a class in the order of severity, 0 when it is not a class
Severity(c) ==
    IF \E i \in 1..Len(SeverityClasses) : SeverityClasses[i] = c
    THEN CHOOSE i \in 1..Len(SeverityClasses) : SeverityClasses[i] = c
    ELSE 0

Classified == thresholdClass # <<>>

\* C23: getThresholdClass maps the counts 0, 1, 2, 3, 4 to the classes none,
\* low, mid, high, max, which are pairwise distinct, and a larger count has a
\* strictly higher class.
C23_ClassStrictlyMonotonic ==
    Classified =>
        /\ thresholdClass[1] = SeverityClasses[count[1] + 1]
        /\ \A c \in 0..4 :
              /\ c # count[1] => getThresholdClass(c) # thresholdClass[1]
              /\ c > count[1] =>
                    Severity(getThresholdClass(c)) > Severity(thresholdClass[1])
              /\ c < count[1] =>
                    Severity(getThresholdClass(c)) < Severity(thresholdClass[1])

\* the class of a count of two
C23_Witness == Classified /\ count[1] = 2

\* C25: the value estimateCombinations returns is the number of results
\* search returns for the same candidates and enabled slots with all-zero
\* targets and a maxResults of at least that value, also when no slot is
\* active.
C25_EstimateIsSearchCount ==
    (Called /\ Estimated /\ AllTargetsZero /\ Limit >= estimate[1]) =>
        Len(results) = estimate[1]

\* the building's trait resolves to a non-empty extra-effect description
HasExtraEffect(b, table) ==
    /\ HasKnownTrait(b, table)
    /\ "extraEffect" \in DOMAIN table[b.trait]
    /\ table[b.trait].extraEffect # ""

\* one (trait name, description) pair per building with an extra effect, in
\* the order of the buildings
ExtraEffectPairs(buildings, table) ==
    LET carriers == SelectSeq(buildings, LAMBDA b : HasExtraEffect(b, table))
    IN  [i \in 1..Len(carriers) |->
            [trait |-> carriers[i].trait,
             effect |-> table[carriers[i].trait].extraEffect]]

\* C26: a call of getExtraEffects returns one (trait name, description) pair
\* for every given building whose trait resolves to a non-empty extra-effect
\* description, in the order of the buildings and once per building that
\* carries the trait; the other buildings yield nothing.
C26_OnePairPerCarrier ==
    [][extraEffects' # extraEffects =>
          extraEffects' = <<ExtraEffectPairs(selectedBuildings, traits)>>]_vars

\* pairs returned for two buildings that carry the same trait, among
\* buildings that yield nothing
C26_Witness ==
    /\ extraEffects # <<>>
    /\ Len(extraEffects[1]) = 2
    /\ extraEffects[1][1].trait = extraEffects[1][2].trait
    /\ Len(selectedBuildings) > 2

\* what Solver.search returns on the state App.search found at a trigger
ResultsAsTriggered(n) ==
    search(triggered[n].buildingsBySlot, triggered[n].enabledSlots,
           triggered[n].targets, [given |-> TRUE, table |-> traits],
           [given |-> TRUE, value |-> 5], traits)

\* C28: the results rendered for a search are those of the slot selection,
\* targets and user buildings in effect when the search was triggered, and
\* Solver.search is never run on an empty user-building collection.
C28_RenderedFromTriggerState ==
    \A i \in 1..Len(rendered) :
        /\ rendered[i].results = ResultsAsTriggered(rendered[i].trigger)
        /\ rendered[i].searched > 0

DistinctNames(configs) ==
    \A i, j \in 1..Len(configs) : i # j => configs[i].name # configs[j].name

HasName(configs, name) == \E i \in 1..Len(configs) : configs[i].name = name

\* after is before with the entry named name replaced, in its place
ReplacedInPlace(before, after, name, config) ==
    /\ Len(after) = Len(before)
    /\ \A i \in 1..Len(before) :
          IF before[i].name = name
          THEN /\ after[i].name = name
               /\ after[i].slots = config.slots
               /\ after[i].targets = config.targets
          ELSE after[i] = before[i]

\* after is before with one entry named name added at the end
AppendedOne(before, after, name, config) ==
    /\ Len(after) = Len(before) + 1
    /\ SubSeq(after, 1, Len(before)) = before
    /\ after[Len(after)].name = name
    /\ after[Len(after)].slots = config.slots
    /\ after[Len(after)].targets = config.targets

\* C29: from an empty store, after any saveConfig and deleteConfig calls the
\* saved configurations have pairwise distinct names: a successful saveConfig
\* with an existing name replaces that entry in place, with a new name it
\* appends one entry, and a successful deleteConfig leaves no entry with the
\* name and keeps the others in order.
C29_ConfigNamesDistinct ==
    [][LET before == getConfigs(store)
           after == getConfigs(store')
       IN  /\ DistinctNames(after)
           /\ (lastCall'.op = "saveConfig" /\ lastCall'.ret) =>
                 IF HasName(before, lastCall'.name)
                 THEN ReplacedInPlace(before, after, lastCall'.name,
                                      lastCall'.config)
                 ELSE AppendedOne(before, after, lastCall'.name,
                                  lastCall'.config)
           /\ (lastCall'.op = "deleteConfig" /\ lastCall'.ret) =>
                 /\ ~HasName(after, lastCall'.name)
                 /\ IsSubseq(after, before)
                 /\ \A i \in 1..Len(before) :
                       before[i].name # lastCall'.name =>
                           \E j \in 1..Len(after) : after[j] = before[i]]_vars

\* a successful saveConfig of the name of the first of two saved entries
C29_Witness ==
    /\ lastCall.op = "saveConfig"
    /\ lastCall.ret
    /\ Len(getConfigs(store)) = 2
    /\ getConfigs(store)[1].name = lastCall.name
    /\ getConfigs(store)[1].updatedAt = lastCall.now
    /\ getConfigs(store)[1].updatedAt # getConfigs(store)[2].updatedAt

\* C24: addUserBuilding returns the new building only when it was persisted
\* (the stored list is the old list with the returned building at its end);
\* when the write fails it returns null and the stored list is unchanged.
C24_ReturnsBuildingOnlyIfPersisted ==
    [][lastCall'.op = "addUserBuilding" =>
          /\ lastCall'.ret # <<>> =>
                store'.userBuildings =
                    <<Append(getUserBuildings(store), lastCall'.ret[1])>>
          /\ ~lastCall'.wrote =>
                /\ lastCall'.ret = <<>>
                /\ store' = store]_vars

\* the section of the data, or what was stored when the data has no such array
SectionOr(data, section, stored) ==
    IF HasArray(data, section) THEN <<data[section].items>> ELSE stored

\* C30: importAllData returns false and leaves the three stored items
\* unchanged when the data is missing or has no version; when it returns
\* true exactly the sections present in the data are overwritten and the
\* others are unchanged, so that importing what exportAllData returned
\* restores the exported user buildings, configs and current config.
C30_ImportOverwritesPresentSections ==
    [][lastCall'.op = "importAllData" =>
          LET data == lastCall'.data
          IN  /\ LacksVersion(data) =>
                    /\ ~lastCall'.ret
                    /\ store' = store
              /\ lastCall'.ret =>
                    /\ store'.userBuildings =
                          SectionOr(data, "userBuildings", store.userBuildings)
                    /\ store'.configs =
                          SectionOr(data, "searchConfigs", store.configs)
                    /\ store'.current =
                          IF "currentConfig" \in DOMAIN data
                          THEN <<data.currentConfig>> ELSE store.current
              /\ (lastCall'.ret /\ exported # <<>> /\ data = exported[1]) =>
                    /\ getUserBuildings(store') = data.userBuildings.items
                    /\ getConfigs(store') = data.searchConfigs.items
                    /\ getCurrentConfig(store') = data.currentConfig]_vars

\* C27: the promise of every dialog is resolved once its dialog is closed, by
\* confirm, cancel or closeModals, also when another dialog was opened while
\* it was pending; and after closeModals no modal is active and
\* _activeModalCleanup is null.  Closing and resolving are done by the same
\* handler, so a dialog that is closed and still pending stays pending until
\* a later click happens to run its listener.
C27_ClosedDialogsAreResolved ==
    /\ \A i \in 1..Len(dialogs) :
          dialogs[i].closed => dialogs[i].state = "resolved"
    /\ lastCall.op = "closeModals" =>
          /\ \A k \in ModalKinds : ~modalActive[k]
          /\ activeModalCleanup = 0

====
